---- MODULE Spec2Model ----
(***************************************************************************)
(* ASD Screening (src/app.py): a three-screen Streamlit wizard.            *)
(*                                                                         *)
(* Streamlit executes app.py from top to bottom once per user interaction  *)
(* (a widget change or a button click on the page that is displayed).      *)
(* The model keeps, per browser session, the st.session_state dictionary,  *)
(* the front-end values of the widgets on the displayed page, which of     *)
(* the three screens the last run rendered, and what the last run showed   *)
(* as a result.  One action is one interaction: the event plus the whole   *)
(* script run it triggers.                                                 *)
(***************************************************************************)
EXTENDS Integers, Sequences, FiniteSets, TLC

VARIABLES
    hashSeed,       \* the interpreter's string-hash key of this process
    rng,            \* the index the process-wide generator of random yields next
    session_state,  \* session -> st.session_state (key -> value, present keys only)
    widgets,        \* session -> front-end values of the value widgets on the page
    screen,         \* session -> which screen the last run rendered (1, 2, 3; 0 none)
    result,         \* session -> what the last run computed and displayed on screen 3
    scoreCalls,     \* session -> encode+score invocations since the last submit
    loads,          \* joblib.load executions of the process, counted up to MaxLoads
    probe           \* harness of the pure-function specification (SpecPure)

vars ==
    <<hashSeed, rng, session_state, widgets, screen, result, scoreCalls, loads,
      probe>>

----------------------------------------------------------------------------
(* Bounds of the model                                                     *)

\* hash keys the interpreter may draw at process start: 1..NumSeeds
NumSeeds == 2
\* a selectbox is explored on its first MaxOption options
MaxOption == 2
\* the age slider is explored on the first NumAges values of AgeSamples
NumAges == 2
\* at most MaxEdits Intake widgets differ from their defaults
MaxEdits == 1
\* the radios A1..A<MaxToggled> are the ones the user changes
MaxToggled == 2
\* the download button is clicked while fewer than MaxScoreCalls scorings
\* happened since the submit
MaxScoreCalls == 2
\* the loads of the model artifact are counted up to MaxLoads: the value
\* MaxLoads stands for MaxLoads or more
MaxLoads == 2

AgeSamples == <<18, 25, 1, 100>>
\* the names typed into the text input: none, a plain one, and one that
\* reads as an unclosed markup tag
NameSamples == {"", "Sam", "<b>"}

----------------------------------------------------------------------------
(* Program constants                                                       *)

NumQuestions == 10
AgeMin == 1
AgeMax == 100
AgeDefault == 18
HashMod == 100
\* probabilities are kept in hundredths of a percent (the display is :.2f)
Hundredths == 100
LowBelow == 35
ModerateBelow == 65

GenderOptions == <<"Male", "Female">>
EthnicityOptions == <<"Asian", "White-European", "Latino", "Black", "Others">>
YesNoOptions == <<"Yes", "No">>
RelationOptions ==
    <<"Self", "Parent", "Relative", "Health care professional", "Others">>
CountryOptions == <<"India", "USA", "UK", "Others">>
AgeDescOptions == <<"18 and more", "Less than 18">>

\* the session keys written on screen 1, in the order of the code
DemographicKeys ==
    <<"child_name", "age", "gender", "ethnicity", "jaundice", "family_history",
      "used_app_before", "relation", "country", "age_desc">>

\* f"A{i}" for i = 1..10
AKey(i) == <<"A1", "A2", "A3", "A4", "A5", "A6", "A7", "A8", "A9", "A10">>[i]

ResponseKeys == {AKey(i) : i \in 1..NumQuestions}

RadioOptions == <<0, 1>>

SeqToSet(q) == {q[i] : i \in 1..Len(q)}

\* the options of the selectbox bound to a session key
SelectOptions(k) ==
    CASE k = "gender" -> GenderOptions
      [] k = "ethnicity" -> EthnicityOptions
      [] k = "jaundice" -> YesNoOptions
      [] k = "family_history" -> YesNoOptions
      [] k = "used_app_before" -> YesNoOptions
      [] k = "relation" -> RelationOptions
      [] k = "country" -> CountryOptions
      [] k = "age_desc" -> AgeDescOptions

\* what a widget returns the first time it is rendered
WidgetDefault(k) ==
    CASE k = "child_name" -> ""
      [] k = "age" -> AgeDefault
      [] k \in ResponseKeys -> RadioOptions[1]
      [] OTHER -> SelectOptions(k)[1]

----------------------------------------------------------------------------
(* Python builtins                                                         *)

\* hash(str) of CPython 3.11 under PYTHONHASHSEED = 1, 2, 3, each value h
\* kept as sign(h) * (|h| mod 10^9), which leaves h % 100 unchanged.
HashTable ==
 <<("Asian" :> 332646291 @@
    "White-European" :> 405834481 @@
    "Latino" :> 721968208 @@
    "Black" :> -656334842 @@
    "Others" :> -714534111 @@
    "Self" :> -206675666 @@
    "Parent" :> -678168720 @@
    "Relative" :> -42772129 @@
    "Health care professional" :> -927750458 @@
    "India" :> -950787784 @@
    "USA" :> -474482361 @@
    "UK" :> -660296436),
   ("Asian" :> 86887316 @@
    "White-European" :> 648737331 @@
    "Latino" :> -198479350 @@
    "Black" :> -326632293 @@
    "Others" :> -291100651 @@
    "Self" :> 712391045 @@
    "Parent" :> 993313966 @@
    "Relative" :> 171276241 @@
    "Health care professional" :> -6702636 @@
    "India" :> -958911771 @@
    "USA" :> 422170116 @@
    "UK" :> 205207335),
   ("Asian" :> 922846593 @@
    "White-European" :> -612528125 @@
    "Latino" :> -964990110 @@
    "Black" :> 79971856 @@
    "Others" :> -844911119 @@
    "Self" :> 332664636 @@
    "Parent" :> 513424718 @@
    "Relative" :> 540863214 @@
    "Health care professional" :> 759769354 @@
    "India" :> 852391915 @@
    "USA" :> 378925318 @@
    "UK" :> -824823756)>>

\* hash(s) in a process whose hash key is seed
PyHash(seed, s) == HashTable[seed][s]

\* mutant: the remainder of a division that truncates toward zero (the
\* result has the sign of a)
PyMod_Truncating(a, m) == IF a < 0 THEN 0 - ((0 - a) % m) ELSE a % m

\* Python's a % m for m > 0: the result has the sign of m
PyMod(a, m) == a - m * (a \div m)

\* dict assignment d[k] = v
Put(d, k, v) == [x \in (DOMAIN d) \cup {k} |-> IF x = k THEN v ELSE d[x]]

\* the empty dictionary
EmptyDict == [x \in {} |-> 0]

----------------------------------------------------------------------------
(* Scoring collaborator (autism_rf_highprob.pkl, not part of the sources): *)
(* an opaque, deterministic, side-effect-free function of the vector.      *)
(* The stand-in below is a fixed weighted vote over the first features.    *)

\* predict_proba(x)[0][1], in ten-thousandths
ProbaScale == 10000

model_predict_proba(x) ==
    LET rest == x[3] + x[4] + x[5] + x[6] + x[7] + x[8] + x[9] + x[10]
    IN  3500 * x[1] + 3000 * x[2] + 400 * rest + 300 * x[11]

\* predict(x)[0]: the class of the larger probability
model_predict(x) == IF 2 * model_predict_proba(x) > ProbaScale THEN 1 ELSE 0

----------------------------------------------------------------------------
(* Screen 3: encoding, severity, guidance                                  *)

\* the session keys the feature encoding reads
EncodedKeys ==
    ResponseKeys \cup
    {"gender", "jaundice", "family_history", "used_app_before", "age_desc",
     "ethnicity", "age", "relation", "country"}

\* mutant: the raw age and the age-category flag change places
Encode_AgeSwapped(ss, seed) ==
    LET gender   == IF ss["gender"] = "Male" THEN 1 ELSE 0
        jaundice == IF ss["jaundice"] = "Yes" THEN 1 ELSE 0
        family   == IF ss["family_history"] = "Yes" THEN 1 ELSE 0
        used     == IF ss["used_app_before"] = "Yes" THEN 1 ELSE 0
        age_desc == IF ss["age_desc"] = "18 and more" THEN 1 ELSE 0
    IN  [i \in 1..NumQuestions |-> ss[AKey(i)]] \o
        << gender,
           PyMod(PyHash(seed, ss["ethnicity"]), HashMod),
           jaundice,
           family,
           used,
           age_desc,
           ss["age"],
           PyMod(PyHash(seed, ss["relation"]), HashMod),
           PyMod(PyHash(seed, ss["country"]), HashMod) >>

\* input_features: the 19 values handed to the model, in the code's order
Encode(ss, seed) ==
    LET gender   == IF ss["gender"] = "Male" THEN 1 ELSE 0
        jaundice == IF ss["jaundice"] = "Yes" THEN 1 ELSE 0
        family   == IF ss["family_history"] = "Yes" THEN 1 ELSE 0
        used     == IF ss["used_app_before"] = "Yes" THEN 1 ELSE 0
        age_desc == IF ss["age_desc"] = "18 and more" THEN 1 ELSE 0
    IN  [i \in 1..NumQuestions |-> ss[AKey(i)]] \o
        << gender,
           PyMod(PyHash(seed, ss["ethnicity"]), HashMod),
           jaundice,
           family,
           used,
           ss["age"],
           age_desc,
           PyMod(PyHash(seed, ss["relation"]), HashMod),
           PyMod(PyHash(seed, ss["country"]), HashMod) >>

\* probability = predict_proba(...)[0][1] * 100, in hundredths of a percent
Probability(x) == (model_predict_proba(x) * 100 * Hundredths) \div ProbaScale

\* mutant: the lower boundary of the Moderate band is exclusive
Severity_LowInclusive(p) ==
    IF p <= LowBelow * Hundredths THEN "Low Risk"
    ELSE IF p < ModerateBelow * Hundredths THEN "Moderate Risk"
    ELSE "High Risk"

\* severity of a probability p given in hundredths of a percent
Severity(p) ==
    IF p < LowBelow * Hundredths THEN "Low Risk"
    ELSE IF p < ModerateBelow * Hundredths THEN "Moderate Risk"
    ELSE "High Risk"

ResultText(prediction) ==
    IF prediction = 1 THEN "Autistic traits may be present"
    ELSE "Lower likelihood of autistic traits"

EarlyIntervention ==
    "Early intervention is strongly recommended. Speech therapy, occupational therapy, behavioral therapy and professional consultation can improve outcomes."

Affirmations ==
    <<"Different, not less.", "Neurodiversity is a strength.",
      "Awareness creates acceptance.">>

\* mutant: the affirming message is drawn whatever the label
Guidance_IgnoresLabel(prediction, pick) == Affirmations[pick]

\* guidance; pick is the index random.choice draws
Guidance(prediction, pick) ==
    IF prediction = 1 THEN EarlyIntervention ELSE Affirmations[pick]

\* Paragraph(text, style) parses text as markup when it is constructed and
\* raises ValueError on an unbalanced tag
ParagraphParses(text) == text # "<b>"

\* the report is built when every Paragraph of the story can be constructed:
\* the name is the one free text among them
ReportBuilds(ss) == ParagraphParses(ss["child_name"])

----------------------------------------------------------------------------
(* Events and the script                                                   *)

NoResult == [kind |-> "none"]
ScriptException == [kind |-> "exception"]

LoadEvent == [kind |-> "load", id |-> ""]
Click(b) == [kind |-> "click", id |-> b]
Change(k, v) == [kind |-> "change", id |-> k, value |-> v]

\* st.button(label): True only in the run its click triggered
Clicked(ev, b) == ev.kind = "click" /\ ev.id = b

\* the front-end widget values the run starts from
WidgetsAfter(w, ev) ==
    IF ev.kind = "change" /\ ev.id \in DOMAIN w
    THEN [w EXCEPT ![ev.id] = ev.value]
    ELSE w

\* a value widget returns its front-end value when the page already shows
\* it, and its default otherwise
WidgetValue(w, k) == IF k \in DOMAIN w THEN w[k] ELSE WidgetDefault(k)

\* session_state[k] = <widget k> for every k in keys
AssignWidgets(ss, w, keys) ==
    [x \in (DOMAIN ss) \cup keys |->
        IF x \in keys THEN WidgetValue(w, x) ELSE ss[x]]

\* if "step" not in st.session_state: st.session_state.step = 1
SessionInit(ss) == IF "step" \in DOMAIN ss THEN ss ELSE Put(ss, "step", 1)

\* mutant: the proceed button jumps over the questionnaire
OnNext_SkipsQuestionnaire(ss) == Put(ss, "step", 3)

\* if st.button("Next"): st.session_state.step = 2
OnNext(ss) == Put(ss, "step", 2)

\* if st.button("Get Result"): st.session_state.step = 3
OnGetResult(ss) == Put(ss, "step", 3)

\* mutant: the restart resets the step without clearing the session
OnRestart_KeepsData(ss) == Put(ss, "step", 1)

\* st.session_state.clear(); st.session_state.step = 1
OnRestart(ss) == Put(EmptyDict, "step", 1)

\* mutant: the radio loop stops one question short
RenderedRadios_OneShort == {AKey(i) : i \in 1..(NumQuestions - 1)}

\* the radios screen 2 renders and binds
RenderedRadios == {AKey(i) : i \in 1..NumQuestions}

Screen1(ss, w, ev) ==
    LET keys == SeqToSet(DemographicKeys)
        ss1 == AssignWidgets(ss, w, keys)
    IN  [ss |-> IF Clicked(ev, "Next") THEN OnNext(ss1) ELSE ss1,
         widgets |-> [k \in keys |-> WidgetValue(w, k)],
         screen |-> 1,
         result |-> NoResult,
         scored |-> FALSE,
         submitted |-> FALSE]

\* mutant: the questionnaire run binds the Intake fields again
Screen2_RebindsDemographics(ss, w, ev) ==
    LET keys == RenderedRadios
        ss1 == AssignWidgets(ss, w, keys \cup SeqToSet(DemographicKeys))
    IN  [ss |-> IF Clicked(ev, "Get Result") THEN OnGetResult(ss1) ELSE ss1,
         widgets |-> [k \in keys |-> WidgetValue(w, k)],
         screen |-> 2,
         result |-> NoResult,
         scored |-> FALSE,
         submitted |-> Clicked(ev, "Get Result")]

Screen2(ss, w, ev) ==
    LET keys == RenderedRadios
        ss1 == AssignWidgets(ss, w, keys)
    IN  [ss |-> IF Clicked(ev, "Get Result") THEN OnGetResult(ss1) ELSE ss1,
         widgets |-> [k \in keys |-> WidgetValue(w, k)],
         screen |-> 2,
         result |-> NoResult,
         scored |-> FALSE,
         submitted |-> Clicked(ev, "Get Result")]

\* the values screen 3 computes and shows when no statement raises
Computed(ss, seed, pick) ==
    LET input_features == Encode(ss, seed)
        prediction == model_predict(input_features)
        probability == Probability(input_features)
    IN  [kind |-> "result",
         name |-> ss["child_name"],
         input_features |-> input_features,
         prediction |-> prediction,
         probability |-> probability,
         severity |-> Severity(probability),
         result_text |-> ResultText(prediction),
         guidance |-> Guidance(prediction, pick),
         report |-> IF ReportBuilds(ss) THEN "built" ELSE "failed"]

\* mutant: the report is built before the result is displayed
Screen3_ReportFirst(ss, ev, seed, pick) ==
    IF ~(EncodedKeys \subseteq DOMAIN ss)
    THEN [ss |-> ss, widgets |-> EmptyDict, screen |-> 3,
          result |-> ScriptException, scored |-> FALSE, submitted |-> FALSE]
    ELSE IF "child_name" \notin DOMAIN ss \/ ~ReportBuilds(ss)
    THEN [ss |-> ss, widgets |-> EmptyDict, screen |-> 3,
          result |-> ScriptException, scored |-> TRUE, submitted |-> FALSE]
    ELSE [ss |-> IF Clicked(ev, "Restart") THEN OnRestart(ss) ELSE ss,
          widgets |-> EmptyDict,
          screen |-> 3,
          result |-> Computed(ss, seed, pick),
          scored |-> TRUE,
          submitted |-> FALSE]

Screen3(ss, ev, seed, pick) ==
    IF ~(EncodedKeys \subseteq DOMAIN ss)
    THEN \* KeyError while building input_features: the run stops there
         [ss |-> ss, widgets |-> EmptyDict, screen |-> 3,
          result |-> ScriptException, scored |-> FALSE, submitted |-> FALSE]
    ELSE IF "child_name" \notin DOMAIN ss
    THEN \* KeyError at the first display line, after the model was called
         [ss |-> ss, widgets |-> EmptyDict, screen |-> 3,
          result |-> ScriptException, scored |-> TRUE, submitted |-> FALSE]
    ELSE IF ~ReportBuilds(ss)
    THEN \* the result is on the page; ValueError while the story is put
         \* together ends the run before the two buttons
         [ss |-> ss, widgets |-> EmptyDict, screen |-> 3,
          result |-> Computed(ss, seed, pick), scored |-> TRUE,
          submitted |-> FALSE]
    ELSE [ss |-> IF Clicked(ev, "Restart") THEN OnRestart(ss) ELSE ss,
          widgets |-> EmptyDict,
          screen |-> 3,
          result |-> Computed(ss, seed, pick),
          scored |-> TRUE,
          submitted |-> FALSE]

\* one execution of app.py for the event ev
RunScript(ss, w, ev, seed, pick) ==
    LET ss0 == SessionInit(ss)
        w0 == WidgetsAfter(w, ev)
    IN  CASE ss0["step"] = 1 -> Screen1(ss0, w0, ev)
          [] ss0["step"] = 2 -> Screen2(ss0, w0, ev)
          [] ss0["step"] = 3 -> Screen3(ss0, ev, seed, pick)
          [] OTHER -> [ss |-> ss0, widgets |-> EmptyDict, screen |-> 0,
                       result |-> NoResult, scored |-> FALSE,
                       submitted |-> FALSE]

----------------------------------------------------------------------------
(* The sessions of one process                                             *)

Sessions == DOMAIN session_state

HashSeeds == 1..NumSeeds

Min(a, b) == IF a < b THEN a ELSE b

\* the indices random.choice can yield
RngValues == 1..Len(Affirmations)

\* model = joblib.load("autism_rf_highprob.pkl"), a statement of the script:
\* it is executed by every run; n is the count so far
LoadModel(n) == Min(n + 1, MaxLoads)

\* the values of an Intake widget the exploration offers the user
InputChoices(k) ==
    CASE k = "child_name" -> NameSamples
      [] k = "age" -> {AgeSamples[i] : i \in 1..Min(NumAges, Len(AgeSamples))}
      [] OTHER -> {SelectOptions(k)[i] :
                      i \in 1..Min(MaxOption, Len(SelectOptions(k)))}

\* how many widgets of the page hold a value other than their default
Edited(w) == Cardinality({k \in DOMAIN w : w[k] # WidgetDefault(k)})

IdleProbe == [mode |-> "idle"]

\* the state a session is in once the first run of the script has rendered
FirstRun == RunScript(EmptyDict, EmptyDict, LoadEvent, 1, 1)

InitSessions(S) ==
    /\ hashSeed \in HashSeeds
    /\ rng \in RngValues
    /\ session_state = [s \in S |-> FirstRun.ss]
    /\ widgets = [s \in S |-> FirstRun.widgets]
    /\ screen = [s \in S |-> FirstRun.screen]
    /\ result = [s \in S |-> FirstRun.result]
    /\ scoreCalls = [s \in S |-> 0]
    /\ loads = Min(Cardinality(S), MaxLoads)
    /\ probe = IdleProbe

Init == InitSessions({1})

\* the run that starts from ss calls random.choice: it is on screen 3,
\* reaches the display and the label is not 1
CallsChoice(ss, seed) ==
    /\ SessionInit(ss)["step"] = 3
    /\ EncodedKeys \cup {"child_name"} \subseteq DOMAIN ss
    /\ model_predict(Encode(ss, seed)) # 1

\* random.choice draws from the one generator of the random module, which
\* every session of the process uses: the call yields what the generator's
\* state determines and leaves the generator in its next state, of which
\* nothing is known (it was seeded from the system's entropy)
RngAfter(r, called) == IF called THEN RngValues ELSE {r}

\* the interaction ev of session s: the event and the run it triggers
Interact(s, ev) ==
    \E next \in RngAfter(rng, CallsChoice(session_state[s], hashSeed)) :
      \E r \in {RunScript(session_state[s], widgets[s], ev, hashSeed, rng)} :
            /\ rng' = next
            /\ session_state' = [session_state EXCEPT ![s] = r.ss]
            /\ widgets' = [widgets EXCEPT ![s] = r.widgets]
            /\ screen' = [screen EXCEPT ![s] = r.screen]
            /\ result' = [result EXCEPT ![s] = r.result]
            /\ scoreCalls' = [scoreCalls EXCEPT ![s] =
                   IF r.submitted THEN 0
                   ELSE IF r.scored THEN @ + 1 ELSE @]
            /\ loads' = LoadModel(loads)
            /\ UNCHANGED <<hashSeed, probe>>

\* the restart and download buttons are on the page when screen 3 ran to its end
Screen3Complete(s) ==
    screen[s] = 3 /\ result[s].kind = "result" /\ result[s].report = "built"

\* the user changes one widget of the Intake form
ChangeInput(s) ==
    /\ screen[s] = 1
    /\ \E k \in DOMAIN widgets[s] :
         \E v \in InputChoices(k) \ {widgets[s][k]} :
            /\ Edited([widgets[s] EXCEPT ![k] = v]) <= MaxEdits
            /\ Interact(s, Change(k, v))

ClickNext(s) ==
    /\ screen[s] = 1
    /\ Interact(s, Click("Next"))

\* the user changes one radio of the Questionnaire form
ChangeRadio(s) ==
    /\ screen[s] = 2
    /\ \E i \in 1..Min(MaxToggled, NumQuestions) :
         \E v \in SeqToSet(RadioOptions) \ {widgets[s][AKey(i)]} :
            Interact(s, Change(AKey(i), v))

ClickGetResult(s) ==
    /\ screen[s] = 2
    /\ Interact(s, Click("Get Result"))

ClickDownload(s) ==
    /\ Screen3Complete(s)
    /\ scoreCalls[s] < MaxScoreCalls
    /\ Interact(s, Click("Download"))

ClickRestart(s) ==
    /\ Screen3Complete(s)
    /\ Interact(s, Click("Restart"))

Next ==
    \/ \E s \in Sessions : ChangeInput(s)
    \/ \E s \in Sessions : ClickNext(s)
    \/ \E s \in Sessions : ChangeRadio(s)
    \/ \E s \in Sessions : ClickGetResult(s)
    \/ \E s \in Sessions : ClickDownload(s)
    \/ \E s \in Sessions : ClickRestart(s)

Spec == Init /\ [][Next]_vars

----------------------------------------------------------------------------
(* Two sessions served by one process.  Both keep the Intake defaults: the *)
(* interleavings explored are those of their answers and button clicks.    *)

InitMulti == InitSessions({1, 2})

NextMulti ==
    \/ \E s \in Sessions : ClickNext(s)
    \/ \E s \in Sessions : ChangeRadio(s)
    \/ \E s \in Sessions : ClickGetResult(s)
    \/ \E s \in Sessions : ClickDownload(s)
    \/ \E s \in Sessions : ClickRestart(s)

SpecMulti == InitMulti /\ [][NextMulti]_vars

----------------------------------------------------------------------------
(* The pure functions on their own: severity over every probability of     *)
(* the display's resolution, guidance over both labels and every draw.     *)

ProbabilityValues == 0..(100 * Hundredths)

InitPure ==
    /\ hashSeed = 1
    /\ rng = 1
    /\ session_state = [s \in {1} |-> FirstRun.ss]
    /\ widgets = [s \in {1} |-> FirstRun.widgets]
    /\ screen = [s \in {1} |-> FirstRun.screen]
    /\ result = [s \in {1} |-> FirstRun.result]
    /\ scoreCalls = [s \in {1} |-> 0]
    /\ loads = 1
    /\ \/ \E p \in ProbabilityValues :
             probe = [mode |-> "severity", probability |-> p, severity |-> ""]
       \/ \E label \in {0, 1} :
             probe = [mode |-> "guidance", prediction |-> label, seen |-> {}]

\* classify the probability
ProbeSeverity ==
    /\ probe.mode = "severity"
    /\ probe.severity = ""
    /\ probe' = [probe EXCEPT !.severity = Severity(probe.probability)]
    /\ UNCHANGED <<hashSeed, rng, session_state, widgets, screen, result,
                   scoreCalls, loads>>

\* select guidance once more and remember what was selected
ProbeGuidance ==
    /\ probe.mode = "guidance"
    /\ \E pick \in 1..Len(Affirmations) :
         probe' = [probe EXCEPT
                      !.seen = @ \cup {Guidance(probe.prediction, pick)}]
    /\ UNCHANGED <<hashSeed, rng, session_state, widgets, screen, result,
                   scoreCalls, loads>>

NextPure == ProbeSeverity \/ ProbeGuidance

SpecPure == InitPure /\ [][NextPure]_vars

----------------------------------------------------------------------------
(* Properties                                                              *)

Step(s) == session_state[s]["step"]

\* C1: in one session every interaction leaves step unchanged or moves it
\* Intake->Questionnaire by the Next click, Questionnaire->Result by the
\* Get Result click, or Result->Intake by the Restart click; nothing else.
C1_StepTransitions ==
    [][\A s \in Sessions :
          \/ Step(s)' = Step(s)
          \/ Step(s) = 1 /\ Step(s)' = 2 /\ ClickNext(s)
          \/ Step(s) = 2 /\ Step(s)' = 3 /\ ClickGetResult(s)
          \/ Step(s) = 3 /\ Step(s)' = 1 /\ ClickRestart(s)]_vars

\* a session that went through all three transitions: the run of the
\* restart click has just reset the step while screen 3 is still displayed
C1_Witness ==
    \E s \in Sessions : Step(s) = 1 /\ screen[s] = 3 /\ scoreCalls[s] >= 2

\* C2: the run of the restart click leaves step = Intake as the only key of
\* the session, and the first Intake run after it binds every demographic
\* field to its widget default and no response.
C2_RestartClearsSession ==
    [][\A s \in Sessions :
          /\ (Step(s) = 3 /\ ClickRestart(s))
                => session_state'[s] = ("step" :> 1)
          /\ (Step(s) = 1 /\ screen[s] = 3)
                => \A k \in DOMAIN session_state'[s] :
                      \/ k = "step"
                      \/ /\ k \in SeqToSet(DemographicKeys)
                         /\ session_state'[s][k] = WidgetDefault(k)]_vars

\* right after a restart: the attempt that ended had a name and an answer
\* other than the defaults, and the session holds the step alone
C2_Witness ==
    \E s \in Sessions :
        /\ Step(s) = 1 /\ screen[s] = 3
        /\ result[s].kind = "result"
        /\ result[s].name = "Sam"
        /\ result[s].input_features[1] = 1
        /\ DOMAIN session_state[s] = {"step"}

\* C3 (as claimed): between the submit and the restart the encoder and the
\* scorer run exactly once, whatever is clicked while the result is shown.
C3_ScoredOncePerEntry ==
    \A s \in Sessions : screen[s] = 3 => scoreCalls[s] = 1

\* C4 (as claimed): between interactions a result is present if and only if
\* step = Result.
C4_ResultIffResultStep ==
    \A s \in Sessions : (result[s].kind = "result") <=> (Step(s) = 3)

\* C5 (as claimed): while the session stays in Result, what is presented
\* (probability, label, severity, guidance) is what was first produced.
C5_ResultImmutable ==
    [][\A s \in Sessions :
          (/\ Step(s) = 3 /\ result[s].kind = "result"
           /\ Step(s)' = 3 /\ result'[s].kind = "result")
          => result'[s] = result[s]]_vars

\* C6: whenever scoring is invoked (a run that starts with step = Result)
\* all ten responses are in the session and each is 0 or 1; no run ends in
\* an exception, and the vector that was scored starts with ten 0/1 values.
C6_ResponsesBoundBeforeScoring ==
    \A s \in Sessions :
        /\ Step(s) = 3 =>
              \A i \in 1..NumQuestions :
                 /\ AKey(i) \in DOMAIN session_state[s]
                 /\ session_state[s][AKey(i)] \in {0, 1}
        /\ result[s].kind # "exception"
        /\ result[s].kind = "result" =>
              \A i \in 1..NumQuestions : result[s].input_features[i] \in {0, 1}

\* scoring ran on answers the user changed
C6_Witness ==
    \E s \in Sessions :
        /\ Step(s) = 3 /\ result[s].kind = "result" /\ scoreCalls[s] = 1
        /\ session_state[s]["A1"] = 1 /\ session_state[s]["A2"] = 0

\* C7: the vector handed to the scorer has 19 elements: A1..A10, gender,
\* ethnicity surrogate, jaundice, family history, used app, raw age, age
\* category, relation surrogate, country surrogate, in this order.
C7_FeatureVectorLayout ==
    \A s \in Sessions :
        (Step(s) = 3 /\ result[s].kind = "result") =>
            LET x == result[s].input_features
                ss == session_state[s]
                Flag(b) == IF b THEN 1 ELSE 0
            IN  /\ Len(x) = 19
                /\ \A i \in 1..10 : x[i] = ss[AKey(i)]
                /\ x[11] = Flag(ss["gender"] = "Male")
                /\ x[12] = PyHash(hashSeed, ss["ethnicity"]) % 100
                /\ x[13] = Flag(ss["jaundice"] = "Yes")
                /\ x[14] = Flag(ss["family_history"] = "Yes")
                /\ x[15] = Flag(ss["used_app_before"] = "Yes")
                /\ x[16] = ss["age"]
                /\ x[17] = Flag(ss["age_desc"] = "18 and more")
                /\ x[18] = PyHash(hashSeed, ss["relation"]) % 100
                /\ x[19] = PyHash(hashSeed, ss["country"]) % 100

\* a vector encoded from a 25-year-old with A1 answered 1
C7_Witness ==
    \E s \in Sessions :
        /\ Step(s) = 3 /\ result[s].kind = "result"
        /\ hashSeed = 1
        /\ result[s].input_features =
              <<1, 0, 0, 0, 0, 0, 0, 0, 0, 0, 1, 91, 1, 1, 1, 25, 1, 34, 16>>

\* C8 (as claimed): the vector encoded from a session is the same in every
\* run of the program, whatever hash key the interpreter of that run drew.
C8_EncodingStableAcrossRuns ==
    \A s \in Sessions :
        (Step(s) = 3 /\ result[s].kind = "result") =>
            \A seed \in HashSeeds :
                Encode(session_state[s], seed) = result[s].input_features

\* C9: severity is Low below 35, Moderate from 35 to below 65, High from 65
\* on, for every probability of 0..100; 34.99, 35.00, 64.99, 65.00, 100 and
\* 0 fall in Low, Moderate, Moderate, High, High and Low.
C9_SeverityBands ==
    (probe.mode = "severity" /\ probe.severity # "") =>
        LET p == probe.probability
            sev == probe.severity
        IN  /\ sev \in {"Low Risk", "Moderate Risk", "High Risk"}
            /\ sev = "Low Risk" <=> p < 3500
            /\ sev = "Moderate Risk" <=> (3500 <= p /\ p < 6500)
            /\ sev = "High Risk" <=> p >= 6500
            /\ p = 3499 => sev = "Low Risk"
            /\ p = 3500 => sev = "Moderate Risk"
            /\ p = 6499 => sev = "Moderate Risk"
            /\ p = 6500 => sev = "High Risk"
            /\ p = 10000 => sev = "High Risk"
            /\ p = 0 => sev = "Low Risk"

\* 35.00 % has been classified
C9_Witness ==
    /\ probe.mode = "severity"
    /\ probe.probability = 3500
    /\ probe.severity = "Moderate Risk"

\* C10: for label 1 the guidance is the one early-intervention string; for
\* label 0 it is one of the three affirming strings, whatever is drawn.
C10_GuidanceByLabel ==
    probe.mode = "guidance" =>
        /\ Cardinality(SeqToSet(Affirmations)) = 3
        /\ EarlyIntervention \notin SeqToSet(Affirmations)
        /\ probe.prediction = 1 => probe.seen \subseteq {EarlyIntervention}
        /\ probe.prediction = 0 => probe.seen \subseteq SeqToSet(Affirmations)

\* for label 0 each of the three strings has been selected
C10_Witness ==
    /\ probe.mode = "guidance"
    /\ probe.prediction = 0
    /\ probe.seen = SeqToSet(Affirmations)

\* C12 (as claimed): the model artifact is loaded exactly once, at process
\* start, whatever the sessions do afterwards.
C12_ModelLoadedOnce == loads = 1

\* session s is the one that interacts in this step
SessionActs(s) ==
    \/ ChangeInput(s)
    \/ ClickNext(s)
    \/ ChangeRadio(s)
    \/ ClickGetResult(s)
    \/ ClickDownload(s)
    \/ ClickRestart(s)

\* C13: when building the report fails in a run of screen 3, that run still
\* shows the name, probability, severity, label text and guidance it
\* computed, and it leaves the step and every stored answer as they were.
C13_RenderFailureKeepsResult ==
    [][\A s \in Sessions :
          (/\ SessionActs(s)
           /\ Step(s) = 3
           /\ EncodedKeys \cup {"child_name"} \subseteq DOMAIN session_state[s]
           /\ ~ReportBuilds(session_state[s]))
          => LET x == Encode(session_state[s], hashSeed)
             IN  /\ result'[s].kind = "result"
                 /\ result'[s].name = session_state[s]["child_name"]
                 /\ result'[s].probability = Probability(x)
                 /\ result'[s].severity = Severity(Probability(x))
                 /\ result'[s].result_text = ResultText(model_predict(x))
                 /\ \E pick \in 1..Len(Affirmations) :
                       result'[s].guidance = Guidance(model_predict(x), pick)
                 /\ screen'[s] = 3
                 /\ session_state'[s] = session_state[s]]_vars

\* a result on the page of a session whose report could not be built
C13_Witness ==
    \E s \in Sessions :
        /\ Step(s) = 3 /\ screen[s] = 3
        /\ result[s].kind = "result"
        /\ result[s].report = "failed"
        /\ result[s].name = "<b>"

\* C17 (as claimed): whenever the session is in Result and shows the Result
\* view, the restart button is offered, also when the report failed.
C17_RestartAlwaysOffered ==
    \A s \in Sessions : (Step(s) = 3 /\ screen[s] = 3) => Screen3Complete(s)

\* C14 (as claimed): when the run of a button click (Next, Get Result,
\* Restart) has completed, the page shows the screen of the session's step.
C14_PageFollowsStep ==
    [][\A s \in Sessions :
          (ClickNext(s) \/ ClickGetResult(s) \/ ClickRestart(s))
          => screen'[s] = Step(s)']_vars

\* key k of session s is left as it is by this step: absent before and
\* after, or bound to the same value
KeyUntouched(s, k) ==
    /\ (k \in DOMAIN session_state[s]) <=> (k \in DOMAIN session_state'[s])
    /\ k \in DOMAIN session_state[s] => session_state'[s][k] = session_state[s][k]

\* C16: an interaction handled with step = Questionnaire leaves every
\* demographic field as it is, one handled with step = Intake leaves every
\* response as it is, and one handled with step = Result, unless it is the
\* restart, leaves every demographic field and every response as it is.
C16_WritesStayInTheirStage ==
    [][\A s \in Sessions :
          /\ Step(s) = 1 => \A k \in ResponseKeys : KeyUntouched(s, k)
          /\ Step(s) = 2 =>
                \A k \in SeqToSet(DemographicKeys) : KeyUntouched(s, k)
          /\ (Step(s) = 3 /\ ~ClickRestart(s)) =>
                \A k \in SeqToSet(DemographicKeys) \cup ResponseKeys :
                    KeyUntouched(s, k)]_vars

\* the questionnaire was answered in a session whose name field is not the
\* default, and the result of those fields and answers is on the page
C16_Witness ==
    \E s \in Sessions :
        /\ Step(s) = 3 /\ Screen3Complete(s) /\ scoreCalls[s] >= 2
        /\ session_state[s]["child_name"] = "Sam"
        /\ session_state[s]["A1"] = 1

\* C18: whenever the encoding runs, every demographic field it reads holds
\* a value of its widget's domain, and the vector holds 0/1 for A1..A10 and
\* the five flags, an age of 1..100 and three surrogates of 0..99, also for
\* a negative hash value.
C18_EncodedValuesInRange ==
    \A s \in Sessions :
        /\ Step(s) = 3 =>
              LET ss == session_state[s]
              IN  /\ EncodedKeys \subseteq DOMAIN ss
                  /\ ss["age"] \in AgeMin..AgeMax
                  /\ \A k \in {"gender", "ethnicity", "jaundice",
                               "family_history", "used_app_before",
                               "relation", "country", "age_desc"} :
                        ss[k] \in SeqToSet(SelectOptions(k))
        /\ result[s].kind = "result" =>
              LET x == result[s].input_features
              IN  /\ \A i \in (1..10) \cup {11, 13, 14, 15, 17} : x[i] \in {0, 1}
                  /\ x[16] \in 1..100
                  /\ \A i \in {12, 18, 19} : x[i] \in 0..99

\* a vector whose relation and country surrogates come from negative hash
\* values
C18_Witness ==
    \E s \in Sessions :
        /\ Step(s) = 3 /\ result[s].kind = "result"
        /\ PyHash(hashSeed, session_state[s]["relation"]) < 0
        /\ PyHash(hashSeed, session_state[s]["country"]) < 0
        /\ result[s].input_features[18] = 34
        /\ result[s].input_features[19] = 16

\* what belongs to session s alone
Own(s) == <<session_state[s], widgets[s], screen[s], result[s]>>

\* what session s is shown by its next rerun
Upcoming(s) ==
    RunScript(session_state[s], widgets[s], Click("Download"), hashSeed, rng).result

\* C15 (as claimed): an interaction of another session changes nothing of
\* session s: neither its step, stored answers and page, nor the result
\* (guidance included) that its next rerun produces.
C15_SessionsIsolated ==
    [][\A s \in Sessions :
          ~SessionActs(s) => (Own(s)' = Own(s) /\ Upcoming(s)' = Upcoming(s))]_vars

====
